---- MODULE Spec2Model ----
(***************************************************************************)
(* Model of the agri-aid advisory service (src/app.py): two static tables, *)
(* three advisory functions, the weather client and the five POST routes.  *)
(*                                                                         *)
(* Conventions                                                             *)
(*  - a string the code inspects character by character (lower(), "in")    *)
(*    is a sequence of one-character strings;                              *)
(*  - soil pH is held in tenths (6.5 -> 65) so the float comparisons of    *)
(*    the code become integer comparisons; rainfall and ppm are integers;  *)
(*  - a JSON request field is a tagged value [k, v]: absent, null, a       *)
(*    number, a string; a request body is a JSON object of such fields;    *)
(*  - an uncaught Python exception in a handler is the framework's         *)
(*    500 response.                                                        *)
(***************************************************************************)
EXTENDS Integers, Sequences, FiniteSets, TLC

VARIABLES crops, pest_warnings, OPENWEATHER_KEY, last, wpc, wreq, wcalls, wapi, wresp

vars == <<crops, pest_warnings, OPENWEATHER_KEY, last, wpc, wreq, wcalls, wapi, wresp>>

(***************************************************************************)
(* Strings                                                                 *)
(***************************************************************************)
S_wheat == <<"w", "h", "e", "a", "t">>
S_maize == <<"m", "a", "i", "z", "e">>
S_groundnut == <<"g", "r", "o", "u", "n", "d", "n", "u", "t">>
S_soybean == <<"s", "o", "y", "b", "e", "a", "n">>
S_crop == <<"c", "r", "o", "p">>

\* str.lower() on one character: the upper-case letters the inputs use map
\* to their lower-case letter, every other character is unchanged.
LowerChar(c) ==
    CASE c = "A" -> "a" [] c = "B" -> "b" [] c = "C" -> "c" [] c = "D" -> "d"
      [] c = "E" -> "e" [] c = "G" -> "g" [] c = "H" -> "h" [] c = "I" -> "i"
      [] c = "M" -> "m" [] c = "N" -> "n" [] c = "O" -> "o" [] c = "P" -> "p"
      [] c = "R" -> "r" [] c = "S" -> "s" [] c = "T" -> "t" [] c = "U" -> "u"
      [] c = "W" -> "w" [] c = "Y" -> "y" [] c = "Z" -> "z"
      [] OTHER -> c

\* str.lower()
Lower(s) == [i \in 1..Len(s) |-> LowerChar(s[i])]

\* x in list
InList(x, l) == \E i \in 1..Len(l) : l[i] = x

\* sub in s (substring test on strings)
Contains(sub, s) ==
    \E i \in 0..(Len(s) - Len(sub)) :
        \A j \in 1..Len(sub) : s[i + j] = sub[j]

(***************************************************************************)
(* The tables as written in the source                                     *)
(***************************************************************************)
CROPS ==
    << [crop |-> S_wheat, ph_min |-> 60, ph_max |-> 75, rainfall_min |-> 300, season |-> "rabi"],
       [crop |-> S_maize, ph_min |-> 55, ph_max |-> 70, rainfall_min |-> 500, season |-> "kharif"],
       [crop |-> S_groundnut, ph_min |-> 50, ph_max |-> 65, rainfall_min |-> 400, season |-> "kharif"],
       [crop |-> S_soybean, ph_min |-> 55, ph_max |-> 70, rainfall_min |-> 450, season |-> "kharif"] >>

PEST_WARNINGS ==
    << [name |-> "stem_borer", crops |-> <<S_maize>>,
        message |-> "Stem borer alert - apply pheromone traps early."],
       [name |-> "aphids", crops |-> <<S_soybean, S_groundnut>>,
        message |-> "Aphid activity expected, neem spray recommended."] >>

(***************************************************************************)
(* Advisory functions                                                      *)
(***************************************************************************)
\* int(bool)
BoolInt(b) == IF b THEN 1 ELSE 0

\* ScoreOf with the upper pH bound taken as exclusive.
ScoreOfStrictMax(info, soil_ph, avg_rainfall_mm) ==
    LET ph_ok == info.ph_min <= soil_ph /\ soil_ph < info.ph_max
        rain_ok == avg_rainfall_mm >= info.rainfall_min
    IN  BoolInt(ph_ok) + BoolInt(rain_ok)

\* The loop body of recommend_crops: one (crop, score, info) per table row.
ScoreOf(info, soil_ph, avg_rainfall_mm) ==
    LET ph_ok == info.ph_min <= soil_ph /\ soil_ph <= info.ph_max
        rain_ok == avg_rainfall_mm >= info.rainfall_min
    IN  BoolInt(ph_ok) + BoolInt(rain_ok)

\* InsertDesc that places an element before the elements of equal score, as
\* sorting ascending and reversing the result would.
RECURSIVE InsertDescBeforeTies(_, _)
InsertDescBeforeTies(x, l) ==
    IF l = <<>> THEN <<x>>
    ELSE IF Head(l).score > x.score THEN <<Head(l)>> \o InsertDescBeforeTies(x, Tail(l))
    ELSE <<x>> \o l

\* list.sort(key=score, reverse=True): stable, so an element goes after every
\* element already placed whose score is not smaller.
RECURSIVE InsertDesc(_, _)
InsertDesc(x, l) ==
    IF l = <<>> THEN <<x>>
    ELSE IF Head(l).score >= x.score THEN <<Head(l)>> \o InsertDesc(x, Tail(l))
    ELSE <<x>> \o l

RECURSIVE SortDesc(_)
SortDesc(l) ==
    IF l = <<>> THEN <<>>
    ELSE InsertDesc(l[Len(l)], SortDesc(SubSeq(l, 1, Len(l) - 1)))

recommend_crops(table, soil_ph, avg_rainfall_mm) ==
    LET scores == [i \in 1..Len(table) |->
                      [crop |-> table[i].crop,
                       score |-> ScoreOf(table[i], soil_ph, avg_rainfall_mm),
                       reason |-> [ph_min |-> table[i].ph_min,
                                   ph_max |-> table[i].ph_max,
                                   rainfall_min |-> table[i].rainfall_min]]]
    IN  SortDesc(scores)

\* fertilizer_suggestion with the phosphorus threshold taken as inclusive.
fertilizer_suggestion_le(crop, nitrogen_ppm, phosphorus_ppm, potassium_ppm) ==
    LET n == IF nitrogen_ppm < 200
             THEN <<[nutrient |-> "N", suggestion |-> "Apply Urea 50 kg/ha"]>> ELSE <<>>
        p == IF phosphorus_ppm <= 15
             THEN <<[nutrient |-> "P", suggestion |-> "Apply SSP 100 kg/ha"]>> ELSE <<>>
        k == IF potassium_ppm < 150
             THEN <<[nutrient |-> "K", suggestion |-> "Apply MOP 50 kg/ha"]>> ELSE <<>>
        suggestions == n \o p \o k
    IN  IF suggestions = <<>>
        THEN <<[nutrient |-> "OK", suggestion |-> "Soil nutrients adequate"]>>
        ELSE suggestions

fertilizer_suggestion(crop, nitrogen_ppm, phosphorus_ppm, potassium_ppm) ==
    LET n == IF nitrogen_ppm < 200
             THEN <<[nutrient |-> "N", suggestion |-> "Apply Urea 50 kg/ha"]>> ELSE <<>>
        p == IF phosphorus_ppm < 15
             THEN <<[nutrient |-> "P", suggestion |-> "Apply SSP 100 kg/ha"]>> ELSE <<>>
        k == IF potassium_ppm < 150
             THEN <<[nutrient |-> "K", suggestion |-> "Apply MOP 50 kg/ha"]>> ELSE <<>>
        suggestions == n \o p \o k
    IN  IF suggestions = <<>>
        THEN <<[nutrient |-> "OK", suggestion |-> "Soil nutrients adequate"]>>
        ELSE suggestions

RECURSIVE FilterRules(_, _)
FilterRules(rules, crop) ==
    IF rules = <<>> THEN <<>>
    ELSE (IF InList(crop, Head(rules).crops) THEN <<Head(rules)>> ELSE <<>>)
         \o FilterRules(Tail(rules), crop)

pest_risk_for_crop(rules, crop) == FilterRules(rules, crop)

(***************************************************************************)
(* JSON request fields and the conversions the handlers apply to them      *)
(***************************************************************************)
Absent == [k |-> "absent", v |-> 0]
Null == [k |-> "null", v |-> 0]
Num(n) == [k |-> "num", v |-> n]
\* a string holding the decimal text of n, which float() parses
NumStr(n) == [k |-> "numstr", v |-> n]
\* a string float() cannot parse
BadStr == [k |-> "badstr", v |-> 0]

SAbsent == [k |-> "absent", v |-> <<>>]
SNull == [k |-> "null", v |-> <<>>]
Str(s) == [k |-> "str", v |-> s]
\* a JSON number where the handler expects a string
SNum == [k |-> "num", v |-> <<>>]

\* float(data.get(name, default)): the default stands in for an absent key
\* only; float(None) raises TypeError, float("abc") raises ValueError.
FloatOf(field, default) ==
    CASE field.k = "absent" -> [ok |-> TRUE, v |-> default]
      [] field.k = "num" -> [ok |-> TRUE, v |-> field.v]
      [] field.k = "numstr" -> [ok |-> TRUE, v |-> field.v]
      [] OTHER -> [ok |-> FALSE, v |-> 0]

\* data.get(name, default).lower(): None and numbers have no lower().
LowerOf(field, default) ==
    CASE field.k = "absent" -> [ok |-> TRUE, v |-> Lower(default)]
      [] field.k = "str" -> [ok |-> TRUE, v |-> Lower(field.v)]
      [] OTHER -> [ok |-> FALSE, v |-> <<>>]

\* The framework's answer to an exception no handler catches.
Error500 == [status |-> 500, body |-> [error |-> "Internal Server Error"]]

\* jsonify(...)
Ok200(body) == [status |-> 200, body |-> body]

(***************************************************************************)
(* Route handlers (the response as a function of body and tables)          *)
(***************************************************************************)
crop_suggestions(table, data) ==
    LET soil_ph == FloatOf(data.soil_ph, 65)
        rain == FloatOf(data.avg_rainfall_mm, 400)
    IN  IF ~soil_ph.ok \/ ~rain.ok THEN Error500
        ELSE Ok200([ok |-> TRUE, suggestions |-> recommend_crops(table, soil_ph.v, rain.v)])

soil_analysis(data) ==
    LET crop == IF data.crop.k = "absent" THEN Str(S_maize) ELSE data.crop
        n == FloatOf(data.nitrogen_ppm, 200)
        p == FloatOf(data.phosphorus_ppm, 20)
        k == FloatOf(data.potassium_ppm, 200)
    IN  IF ~n.ok \/ ~p.ok \/ ~k.ok THEN Error500
        ELSE Ok200([ok |-> TRUE,
                    fertilizer_suggestions |-> fertilizer_suggestion(crop, n.v, p.v, k.v)])

\* pest_warning without the .lower() on the crop.
pest_warning_raw(rules, data) ==
    IF data.crop.k \notin {"absent", "str"} THEN Error500
    ELSE Ok200([ok |-> TRUE, warnings |-> pest_risk_for_crop(rules, data.crop.v)])

pest_warning(rules, data) ==
    LET crop == LowerOf(data.crop, <<>>)
    IN  IF ~crop.ok THEN Error500
        ELSE Ok200([ok |-> TRUE, warnings |-> pest_risk_for_crop(rules, crop.v)])

chatbot(data) ==
    LET msg == LowerOf(data.message, <<>>)
    IN  IF ~msg.ok THEN Error500
        ELSE IF Contains(S_crop, msg.v)
        THEN Ok200([reply |-> "Please share soil pH & rainfall for crop suggestion."])
        ELSE Ok200([reply |-> "I can assist with weather, soil, crop and pest advisories."])

(***************************************************************************)
(* Weather client                                                          *)
(***************************************************************************)
\* os.getenv("OPENWEATHER_KEY"): None when the variable is not set.
NoKey == [set |-> FALSE, value |-> ""]
Key(s) == [set |-> TRUE, value |-> s]

\* "not OPENWEATHER_KEY" is true of None and of the empty string.
KeyConfigured(key) == key.set /\ key.value # ""

\* Values r.json() can return, and None.
JW(present, list) == [present |-> present, list |-> list]
JM(present, temp) == [present |-> present, temp |-> temp]
JObject(weather, main, other) ==
    [t |-> "object", weather |-> weather, main |-> main, other |-> other]
JNull == [t |-> "null", weather |-> JW(FALSE, <<>>), main |-> JM(FALSE, 0), other |-> FALSE]
NotJson == [t |-> "notjson", weather |-> JW(FALSE, <<>>), main |-> JM(FALSE, 0), other |-> FALSE]
None == [t |-> "none", weather |-> JW(FALSE, <<>>), main |-> JM(FALSE, 0), other |-> FALSE]

\* The try block of get_weather_from_api once requests.get has ended with
\* `reply`: a transport fault, a 4xx/5xx status (raise_for_status) and a body
\* that is not JSON (r.json()) raise inside the try and give None.
ResultOfReply(reply) ==
    IF reply.transport # "ok" THEN None
    ELSE IF reply.status >= 400 THEN None
    ELSE IF reply.json.t = "notjson" THEN None
    ELSE IF reply.json.t = "null" THEN None
    ELSE reply.json

\* "if api_data": None and the empty dict are false.
Truthy(api_data) ==
    /\ api_data.t = "object"
    /\ (api_data.weather.present \/ api_data.main.present \/ api_data.other)

FallbackAdvisory ==
    [short |-> <<"Mock: Light rain expected">>,
     detail |-> "Delay fertilizer application for 48 hours."]

\* weather_advisory after get_weather_from_api has returned api_data. The
\* subscripts api_data["weather"][0]["description"] and
\* api_data["main"]["temp"] are outside any try: a missing key or an empty
\* list raises out of the handler.
AdvisoryResponse(api_data) ==
    IF Truthy(api_data)
    THEN IF ~api_data.weather.present THEN Error500
         ELSE IF api_data.weather.list = <<>> THEN Error500
         ELSE IF ~api_data.main.present THEN Error500
         ELSE Ok200([ok |-> TRUE,
                     advisory |->
                        [short |-> <<"Current weather: ", api_data.weather.list[1].description,
                                     ", ", api_data.main.temp, "C">>,
                         detail |-> "Based on current data, schedule spraying during low wind hours."]])
    ELSE Ok200([ok |-> TRUE, advisory |-> FallbackAdvisory])

(***************************************************************************)
(* Inputs                                                                  *)
(***************************************************************************)
NThreads == 2
Threads == 1..NThreads

\* pH in tenths: every bound of the table, its neighbours, and 6.2
PhValues == {49, 50, 54, 55, 59, 60, 62, 65, 66, 70, 71, 75, 76}
RainValues == {299, 300, 350, 400, 450, 499, 500}

CropBodies ==
    [soil_ph : {Absent, Null, BadStr, NumStr(62)} \cup {Num(v) : v \in PhValues},
     avg_rainfall_mm : {Absent, BadStr} \cup {Num(v) : v \in RainValues}]

SoilBodies ==
    [crop : {SAbsent, Str(S_wheat)},
     nitrogen_ppm : {Absent, BadStr, Num(150), Num(199), Num(200), Num(250)},
     phosphorus_ppm : {Absent, Null, Num(14), Num(15)},
     potassium_ppm : {Absent, NumStr(149), Num(150)}]

CropNames ==
    {<<>>, S_maize, S_wheat, S_soybean, S_groundnut,
     <<"M", "A", "I", "Z", "E">>, <<"M", "a", "i", "z", "e">>, <<"W", "h", "e", "a", "t">>,
     <<"S", "o", "y", "B", "e", "a", "n">>, <<"G", "R", "O", "U", "N", "D", "N", "U", "T">>,
     <<"r", "i", "c", "e">>, <<"m", "a", "i", "z">>}

PestBodies == [crop : {SAbsent, SNull, SNum} \cup {Str(s) : s \in CropNames}]

Messages ==
    {<<>>, S_crop, <<"C", "R", "O", "P", "S">>, <<"m", "y", " ", "C", "r", "o", "p", "?">>,
     <<"r", "a", "i", "n">>, <<"c", "r", "o">>}

ChatBodies == [message : {SAbsent, SNull, SNum} \cup {Str(s) : s \in Messages}]

WeatherBodies == [location : {SAbsent, Str(<<"P", "u", "n", "e">>)}]

Keys == {NoKey, Key(""), Key("k1")}

GoodBody(desc, temp) ==
    JObject(JW(TRUE, <<[description |-> desc]>>), JM(TRUE, temp), TRUE)

\* What requests.get can end with, other than the timeout.
Replies ==
    { [transport |-> "error", status |-> 0, json |-> NotJson],
      [transport |-> "ok", status |-> 404, json |-> JObject(JW(FALSE, <<>>), JM(FALSE, 0), TRUE)],
      [transport |-> "ok", status |-> 200, json |-> NotJson],
      [transport |-> "ok", status |-> 200, json |-> JNull],
      [transport |-> "ok", status |-> 200, json |-> JObject(JW(FALSE, <<>>), JM(FALSE, 0), FALSE)],
      [transport |-> "ok", status |-> 200, json |-> JObject(JW(FALSE, <<>>), JM(FALSE, 0), TRUE)],
      [transport |-> "ok", status |-> 200, json |-> JObject(JW(TRUE, <<>>), JM(TRUE, 31), TRUE)],
      [transport |-> "ok", status |-> 200, json |-> GoodBody("clear sky", 31)] }

(***************************************************************************)
(* State machine                                                           *)
(***************************************************************************)
NoRequest == [route |-> "none", req |-> <<>>, resp |-> <<>>]

Init ==
    /\ crops = CROPS
    /\ pest_warnings = PEST_WARNINGS
    /\ OPENWEATHER_KEY \in Keys
    /\ last = NoRequest
    /\ wpc = [t \in Threads |-> "idle"]
    /\ wreq = [t \in Threads |-> <<>>]
    /\ wcalls = [t \in Threads |-> 0]
    /\ wapi = [t \in Threads |-> None]
    /\ wresp = [t \in Threads |-> <<>>]

weatherVars == <<wpc, wreq, wcalls, wapi, wresp>>

\* CropSuggestions with the table itself sorted by score, as sorting
\* the rows in place instead of a local list would.
CropSuggestionsSortsTable ==
    /\ last = NoRequest
    /\ \E data \in CropBodies :
          LET soil_ph == FloatOf(data.soil_ph, 65)
              rain == FloatOf(data.avg_rainfall_mm, 400)
              scored == [i \in 1..Len(crops) |->
                            [row |-> crops[i], score |-> ScoreOf(crops[i], soil_ph.v, rain.v)]]
              sorted == SortDesc(scored)
          IN  /\ last' = [route |-> "crop_suggestions", req |-> data,
                          resp |-> crop_suggestions(crops, data)]
              /\ crops' = IF soil_ph.ok /\ rain.ok
                          THEN [i \in 1..Len(crops) |-> sorted[i].row]
                          ELSE crops
    /\ UNCHANGED <<pest_warnings, OPENWEATHER_KEY, weatherVars>>

\* POST /api/crop_suggestions
CropSuggestions ==
    /\ last = NoRequest
    /\ \E data \in CropBodies :
          last' = [route |-> "crop_suggestions", req |-> data,
                   resp |-> crop_suggestions(crops, data)]
    /\ UNCHANGED <<crops, pest_warnings, OPENWEATHER_KEY, weatherVars>>

\* POST /api/soil_analysis
SoilAnalysis ==
    /\ last = NoRequest
    /\ \E data \in SoilBodies :
          last' = [route |-> "soil_analysis", req |-> data, resp |-> soil_analysis(data)]
    /\ UNCHANGED <<crops, pest_warnings, OPENWEATHER_KEY, weatherVars>>

\* POST /api/pest_warning
PestWarning ==
    /\ last = NoRequest
    /\ \E data \in PestBodies :
          last' = [route |-> "pest_warning", req |-> data,
                   resp |-> pest_warning(pest_warnings, data)]
    /\ UNCHANGED <<crops, pest_warnings, OPENWEATHER_KEY, weatherVars>>

\* POST /api/chatbot
Chatbot ==
    /\ last = NoRequest
    /\ \E data \in ChatBodies :
          last' = [route |-> "chatbot", req |-> data, resp |-> chatbot(data)]
    /\ UNCHANGED <<crops, pest_warnings, OPENWEATHER_KEY, weatherVars>>

\* POST /api/weather_advisory up to the point where it blocks: without a key
\* get_weather_from_api returns None at once and the handler answers; with a
\* key it issues the one requests.get and waits.
WeatherStart(t) ==
    /\ wpc[t] = "idle"
    /\ \E data \in WeatherBodies :
          /\ wreq' = [wreq EXCEPT ![t] = data]
          /\ IF KeyConfigured(OPENWEATHER_KEY)
             THEN /\ wcalls' = [wcalls EXCEPT ![t] = @ + 1]
                  /\ wpc' = [wpc EXCEPT ![t] = "calling"]
                  /\ UNCHANGED <<wapi, wresp>>
             ELSE /\ wapi' = [wapi EXCEPT ![t] = None]
                  /\ wresp' = [wresp EXCEPT ![t] = AdvisoryResponse(None)]
                  /\ wpc' = [wpc EXCEPT ![t] = "done"]
                  /\ UNCHANGED wcalls
    /\ UNCHANGED <<crops, pest_warnings, OPENWEATHER_KEY, last>>

\* ProviderReplies with the call issued again whenever it gives no data.
ProviderRepliesRetry(t) ==
    /\ wpc[t] = "calling"
    /\ \E reply \in Replies :
          IF ResultOfReply(reply) = None
          THEN /\ wcalls' = [wcalls EXCEPT ![t] = @ + 1]
               /\ UNCHANGED <<wapi, wresp, wpc>>
          ELSE /\ wapi' = [wapi EXCEPT ![t] = ResultOfReply(reply)]
               /\ wresp' = [wresp EXCEPT ![t] = AdvisoryResponse(ResultOfReply(reply))]
               /\ wpc' = [wpc EXCEPT ![t] = "done"]
               /\ UNCHANGED wcalls
    /\ UNCHANGED <<crops, pest_warnings, OPENWEATHER_KEY, last, wreq>>

\* requests.get ends with a reply or a transport fault; the rest of
\* get_weather_from_api and of the handler runs.
ProviderReplies(t) ==
    /\ wpc[t] = "calling"
    /\ \E reply \in Replies :
          /\ wapi' = [wapi EXCEPT ![t] = ResultOfReply(reply)]
          /\ wresp' = [wresp EXCEPT ![t] = AdvisoryResponse(ResultOfReply(reply))]
    /\ wpc' = [wpc EXCEPT ![t] = "done"]
    /\ UNCHANGED <<crops, pest_warnings, OPENWEATHER_KEY, last, wreq, wcalls>>

\* requests.get without a timeout: the wait is never cut short.
TimeoutNever(t) ==
    /\ FALSE
    /\ UNCHANGED vars

\* requests.get(..., timeout=8) raises Timeout, caught by the except clause.
TimeoutFires(t) ==
    /\ wpc[t] = "calling"
    /\ wapi' = [wapi EXCEPT ![t] = None]
    /\ wresp' = [wresp EXCEPT ![t] = AdvisoryResponse(None)]
    /\ wpc' = [wpc EXCEPT ![t] = "done"]
    /\ UNCHANGED <<crops, pest_warnings, OPENWEATHER_KEY, last, wreq, wcalls>>

\* The response has been sent; the thread's locals are gone and it can serve
\* the next request.
WeatherReturn(t) ==
    /\ wpc[t] = "done"
    /\ wpc' = [wpc EXCEPT ![t] = "idle"]
    /\ wreq' = [wreq EXCEPT ![t] = <<>>]
    /\ wcalls' = [wcalls EXCEPT ![t] = 0]
    /\ wapi' = [wapi EXCEPT ![t] = None]
    /\ wresp' = [wresp EXCEPT ![t] = <<>>]
    /\ UNCHANGED <<crops, pest_warnings, OPENWEATHER_KEY, last>>

\* The response of an advisory route has been sent.
AdvisoryReturn ==
    /\ last # NoRequest
    /\ last' = NoRequest
    /\ UNCHANGED <<crops, pest_warnings, OPENWEATHER_KEY, weatherVars>>

NextAdvisory ==
    \/ CropSuggestions
    \/ SoilAnalysis
    \/ PestWarning
    \/ Chatbot
    \/ AdvisoryReturn

NextWeather ==
    \E t \in Threads :
        \/ WeatherStart(t)
        \/ ProviderReplies(t)
        \/ TimeoutFires(t)
        \/ WeatherReturn(t)

Next == NextAdvisory \/ NextWeather

Spec == Init /\ [][Next]_vars

SpecAdvisory == Init /\ [][NextAdvisory]_vars

SpecWeather == Init /\ [][NextWeather]_vars

\* requests.get is bounded by timeout=8, and a handler that has its response
\* returns it: neither step can be postponed for ever.
FairWeather ==
    /\ SpecWeather
    /\ \A t \in Threads : WF_vars(TimeoutFires(t)) /\ WF_vars(WeatherReturn(t))

(***************************************************************************)
(* Properties of recommend_crops                                           *)
(***************************************************************************)
\* The value a numeric field stands for when float() accepts it.
Effective(field, default) == IF field.k = "absent" THEN default ELSE field.v

Accepted(field) == field.k \in {"absent", "num", "numstr"}

\* Position of a crop in the CROPS table as written.
TablePos(c) == CHOOSE i \in 1..Len(CROPS) : CROPS[i].crop = c

\* C1: for every (soil_ph, avg_rainfall_mm) pair the answer of
\* /api/crop_suggestions has exactly one result per crop of CROPS (four
\* results, none missing, none twice) and each result's score is
\* (1 if ph_min <= soil_ph <= ph_max else 0) + (1 if rainfall >= rainfall_min
\* else 0), bounds inclusive, hence in {0, 1, 2}.
C1_OneResultPerCropScored ==
    (/\ last.route = "crop_suggestions"
     /\ Accepted(last.req.soil_ph)
     /\ Accepted(last.req.avg_rainfall_mm))
    => /\ last.resp.status = 200
       /\ LET ph == Effective(last.req.soil_ph, 65)
              rain == Effective(last.req.avg_rainfall_mm, 400)
              out == last.resp.body.suggestions
          IN  /\ Len(out) = 4
              /\ \A i \in 1..4 :
                    Cardinality({j \in 1..Len(out) : out[j].crop = CROPS[i].crop}) = 1
              /\ \A j \in 1..Len(out) :
                    /\ out[j].score \in {0, 1, 2}
                    /\ \E i \in 1..4 :
                          /\ CROPS[i].crop = out[j].crop
                          /\ out[j].score =
                                (IF CROPS[i].ph_min <= ph /\ ph <= CROPS[i].ph_max THEN 1 ELSE 0)
                                + (IF rain >= CROPS[i].rainfall_min THEN 1 ELSE 0)

\* pH 7.5 and rainfall 300 sit on wheat's upper pH bound and on its rainfall
\* bound: wheat scores 2.
C1_Witness ==
    /\ last.route = "crop_suggestions"
    /\ last.req.soil_ph = Num(75)
    /\ last.req.avg_rainfall_mm = Num(300)
    /\ last.resp.status = 200
    /\ \E j \in 1..4 : /\ last.resp.body.suggestions[j].crop = S_wheat
                       /\ last.resp.body.suggestions[j].score = 2

\* C2: the list is sorted by score, non-increasing, and crops of equal score
\* keep the order of the CROPS table; pH 6.2 with rainfall 350 gives wheat(2),
\* maize(1), groundnut(1), soybean(1) in that order.
C2_SortedStable ==
    (/\ last.route = "crop_suggestions"
     /\ last.resp.status = 200)
    => LET out == last.resp.body.suggestions
       IN  /\ \A a, b \in 1..Len(out) :
                 a < b => \/ out[a].score > out[b].score
                          \/ /\ out[a].score = out[b].score
                             /\ TablePos(out[a].crop) < TablePos(out[b].crop)
           /\ (last.req.soil_ph \in {Num(62), NumStr(62)} /\ last.req.avg_rainfall_mm = Num(350))
              => /\ [j \in 1..Len(out) |-> out[j].crop]
                      = <<S_wheat, S_maize, S_groundnut, S_soybean>>
                 /\ [j \in 1..Len(out) |-> out[j].score] = <<2, 1, 1, 1>>

\* The example of the claim has been served: three crops tie at score 1.
C2_Witness ==
    /\ last.route = "crop_suggestions"
    /\ last.req.soil_ph = Num(62)
    /\ last.req.avg_rainfall_mm = Num(350)
    /\ last.resp.status = 200
    /\ last.resp.body.suggestions[2].score = last.resp.body.suggestions[4].score

(***************************************************************************)
(* Properties of fertilizer_suggestion                                     *)
(***************************************************************************)
\* C3: the list is never empty; it holds the N record iff nitrogen < 200, the
\* P record iff phosphorus < 15, the K record iff potassium < 150, in the
\* order N, P, K; it is the single OK record iff none is below its threshold,
\* OK never comes with N, P or K; the crop argument changes nothing.
C3_FertilizerThresholds ==
    (/\ last.route = "soil_analysis"
     /\ Accepted(last.req.nitrogen_ppm)
     /\ Accepted(last.req.phosphorus_ppm)
     /\ Accepted(last.req.potassium_ppm))
    => /\ last.resp.status = 200
       /\ LET n == Effective(last.req.nitrogen_ppm, 200)
              p == Effective(last.req.phosphorus_ppm, 20)
              k == Effective(last.req.potassium_ppm, 200)
              out == last.resp.body.fertilizer_suggestions
              has(x) == \E i \in 1..Len(out) : out[i].nutrient = x
              rank(x) == CASE x = "N" -> 1 [] x = "P" -> 2 [] x = "K" -> 3 [] OTHER -> 4
          IN  /\ Len(out) >= 1
              /\ has("N") <=> n < 200
              /\ has("P") <=> p < 15
              /\ has("K") <=> k < 150
              /\ \A a, b \in 1..Len(out) : a < b => rank(out[a].nutrient) < rank(out[b].nutrient)
              /\ has("OK") <=> ~(n < 200 \/ p < 15 \/ k < 150)
              /\ has("OK") => Len(out) = 1
              /\ \A c \in {Str(S_maize), Str(S_wheat), Str(<<"r", "i", "c", "e">>), SNum} :
                    fertilizer_suggestion(c, n, p, k) = out

\* Nitrogen just below, phosphorus and potassium exactly on their thresholds:
\* only the N record.
C3_Witness ==
    /\ last.route = "soil_analysis"
    /\ last.req.crop = Str(S_wheat)
    /\ last.req.nitrogen_ppm = Num(199)
    /\ last.req.phosphorus_ppm = Num(15)
    /\ last.req.potassium_ppm = Num(150)
    /\ Len(last.resp.body.fertilizer_suggestions) = 1
    /\ last.resp.body.fertilizer_suggestions[1].nutrient = "N"

(***************************************************************************)
(* Properties of /api/pest_warning                                         *)
(***************************************************************************)
\* C4: for a crop string in any letter case the warnings are exactly the
\* PEST_WARNINGS rules whose crops hold the lower-cased crop, in table order;
\* no match, an empty or an omitted crop give the empty list in the ok
\* envelope, not an error (maize -> stem_borer only, wheat -> nothing).
C4_PestWarningsByLowerCasedCrop ==
    (/\ last.route = "pest_warning"
     /\ last.req.crop.k \in {"str", "absent"})
    => LET c == last.req.crop.v
           matches(r) == InList(Lower(c), r.crops)
       IN  /\ last.resp.status = 200
           /\ last.resp.body.ok = TRUE
           /\ last.resp.body.warnings = SelectSeq(PEST_WARNINGS, matches)
           /\ c \in {S_maize, <<"M", "A", "I", "Z", "E">>, <<"M", "a", "i", "z", "e">>}
              => last.resp.body.warnings = <<PEST_WARNINGS[1]>>
           /\ c \in {S_wheat, <<"W", "h", "e", "a", "t">>, <<>>, <<"r", "i", "c", "e">>}
              => last.resp.body.warnings = <<>>
           /\ c \in {S_soybean, <<"S", "o", "y", "B", "e", "a", "n">>,
                     <<"G", "R", "O", "U", "N", "D", "N", "U", "T">>}
              => last.resp.body.warnings = <<PEST_WARNINGS[2]>>

\* An upper-case crop has been looked up and matched.
C4_Witness ==
    /\ last.route = "pest_warning"
    /\ last.req.crop = Str(<<"M", "A", "I", "Z", "E">>)
    /\ last.resp.status = 200
    /\ Len(last.resp.body.warnings) = 1
    /\ last.resp.body.warnings[1].name = "stem_borer"

(***************************************************************************)
(* Properties of /api/weather_advisory                                     *)
(***************************************************************************)
FallbackResponse == Ok200([ok |-> TRUE, advisory |-> FallbackAdvisory])

\* A body the real branch can be built from.
WellFormed(api_data) ==
    /\ api_data.t = "object"
    /\ api_data.weather.present
    /\ api_data.weather.list # <<>>
    /\ api_data.main.present

\* C5: whatever the outbound call ends with (transport fault, timeout, 4xx or
\* 5xx, a body that is not JSON, a 2xx JSON body without its fields), the
\* request ends with the success envelope {ok: true, advisory: {short,
\* detail}} and a failure gives the fixed fallback advisory.
C5_AlwaysSuccessEnvelope ==
    \A t \in Threads :
        wpc[t] = "done"
        => /\ wresp[t].status = 200
           /\ wresp[t].body.ok = TRUE
           /\ ~WellFormed(wapi[t]) => wresp[t].body.advisory = FallbackAdvisory

\* C7: a request makes no outbound call when no key is configured and exactly
\* one when a key is configured; a failed or timed-out call is not repeated.
C7_OneCallPerRequest ==
    \A t \in Threads :
        /\ wcalls[t] \in {0, 1}
        /\ wpc[t] = "idle" => wcalls[t] = 0
        /\ wpc[t] = "calling" => KeyConfigured(OPENWEATHER_KEY) /\ wcalls[t] = 1
        /\ wpc[t] = "done"
           => wcalls[t] = (IF KeyConfigured(OPENWEATHER_KEY) THEN 1 ELSE 0)

\* A request whose one call failed has been answered, beside a request that
\* is still waiting for the provider.
C7_Witness ==
    \E t, u \in Threads :
        /\ wpc[t] = "done"
        /\ KeyConfigured(OPENWEATHER_KEY)
        /\ wapi[t] = None
        /\ wcalls[t] = 1
        /\ wpc[u] = "calling"

\* C8: without a key, and with a key when the call fails for any cause, the
\* response is the same object {ok: true, advisory: {short: "Mock: Light rain
\* expected", detail: "Delay fertilizer application for 48 hours."}}.
C8_SameFallbackForEveryFailure ==
    \A t \in Threads :
        (wpc[t] = "done" /\ ~WellFormed(wapi[t])) => wresp[t] = FallbackResponse

\* C10: every request that waits on the provider is answered.
C10_EveryRequestAnswered ==
    \A t \in Threads : (wpc[t] = "calling") ~> (wpc[t] = "done")

\* One request is answered while another still waits on the provider.
C10_Witness ==
    \E t, u \in Threads :
        /\ wpc[t] = "calling"
        /\ wpc[u] = "done"
        /\ wresp[u].status = 200

(***************************************************************************)
(* Properties of the request layer as a whole                              *)
(***************************************************************************)
\* float() rejects null and text that is no number; lower() needs a string.
Defaulted(field) ==
    IF field.k \in {"null", "badstr"} THEN Absent ELSE field

SDefaulted(field) ==
    IF field.k \in {"null", "num"} THEN SAbsent ELSE field

\* C6: a missing or malformed field (absent key, null, non-numeric text for a
\* number, a non-string for crop or message) is replaced by the field's
\* default and the handler returns its success response.
C6_MalformedFieldsDefaulted ==
    /\ last.route = "crop_suggestions"
       => last.resp = crop_suggestions(CROPS,
                         [soil_ph |-> Defaulted(last.req.soil_ph),
                          avg_rainfall_mm |-> Defaulted(last.req.avg_rainfall_mm)])
    /\ last.route = "soil_analysis"
       => last.resp = soil_analysis(
                         [crop |-> SDefaulted(last.req.crop),
                          nitrogen_ppm |-> Defaulted(last.req.nitrogen_ppm),
                          phosphorus_ppm |-> Defaulted(last.req.phosphorus_ppm),
                          potassium_ppm |-> Defaulted(last.req.potassium_ppm)])
    /\ last.route = "pest_warning"
       => last.resp = pest_warning(PEST_WARNINGS, [crop |-> SDefaulted(last.req.crop)])
    /\ last.route = "chatbot"
       => last.resp = chatbot([message |-> SDefaulted(last.req.message)])
    /\ last.route # "none" => last.resp.status = 200

\* C9: after any sequence of requests the two tables hold their startup
\* contents, and each response of crop_suggestions, soil_analysis,
\* pest_warning, chatbot and of weather_advisory's fallback branch is the
\* value its request body has under the startup tables, whatever came before.
C9_TablesFixedResponsesRepeatable ==
    /\ crops = CROPS
    /\ pest_warnings = PEST_WARNINGS
    /\ last.route = "crop_suggestions" => last.resp = crop_suggestions(CROPS, last.req)
    /\ last.route = "soil_analysis" => last.resp = soil_analysis(last.req)
    /\ last.route = "pest_warning" => last.resp = pest_warning(PEST_WARNINGS, last.req)
    /\ last.route = "chatbot" => last.resp = chatbot(last.req)
    /\ \A t \in Threads :
          (wpc[t] = "done" /\ ~Truthy(wapi[t])) => wresp[t] = FallbackResponse

\* A crop request is answered while one weather request has fallen back and
\* another is in flight.
C9_Witness ==
    /\ last.route = "crop_suggestions"
    /\ last.resp.status = 200
    /\ \E t, u \in Threads :
          /\ wpc[t] = "done"
          /\ ~Truthy(wapi[t])
          /\ wpc[u] = "calling"
====
